---------------------------- MODULE Spec2Model ----------------------------
(***************************************************************************)
(* openprovider.py: the Model facade (openprovider/models.py) and the      *)
(* Response unwrapper (openprovider/response.py).                          *)
(*                                                                         *)
(* An attribute name is a sequence of tokens: a lower-case word ("name"),  *)
(* a capitalised word ("Name") or the separator "_".  first_name is        *)
(* <<"first", "_", "name">> and firstName is <<"first", "Name">>.          *)
(*                                                                         *)
(* An XML element is a record [tag, ver, kids]: its tag (a name), the      *)
(* version of the element object (a replaced child gets a new version) and *)
(* the sequence of its children in document order.  An optional value      *)
(* (Python's None or a value) is a sequence of length 0 or 1.              *)
(***************************************************************************)
EXTENDS Integers, Sequences, FiniteSets, TLC

VARIABLES
    cls,      \* the class of the Model under test ("" when there is none)
    kw,       \* the keyword arguments the Model was constructed with
    attrs,    \* Model._attrs
    obj,      \* Model._obj: <<>> (None) or <<element>>
    tree,     \* Response.tree: <<>> (no Response under test) or <<element>>
    resp,     \* the Response's state and its code, desc, data and array
    last      \* the last operation: its name, its argument and what it gave

vars == <<cls, kw, attrs, obj, tree, resp, last>>

-----------------------------------------------------------------------------
(* Bounds *)

\* The longest attribute name, in tokens.
MaxLen == 3
\* The most children of the results array of an envelope.
MaxItems == 3
\* The most external replacements of one child of a wrapped element.
MaxReplace == 2

-----------------------------------------------------------------------------
(* Names and the two naming conventions (openprovider/util.py) *)

Sep == "_"

\* Every word the program's names are made of, with its capitalised form.
WordPairs ==
    { <<"get", "Get">>, <<"elem", "Elem">>, <<"name", "Name">>,
      <<"first", "First">>, <<"firs", "Firs">>, <<"last", "Last">>,
      <<"prefix", "Prefix">>, <<"address", "Address">>,
      <<"phone", "Phone">>, <<"fax", "Fax">>, <<"obj", "Obj">>,
      <<"attrs", "Attrs">>, <<"dump", "Dump">> }

IsLower(t) == \E p \in WordPairs : p[1] = t
IsUpper(t) == \E p \in WordPairs : p[2] = t
Cap(t) == IF IsLower(t) THEN (CHOOSE p \in WordPairs : p[1] = t)[2] ELSE t
Low(t) == IF IsUpper(t) THEN (CHOOSE p \in WordPairs : p[2] = t)[1] ELSE t

HasSep(name) == \E i \in 1..Len(name) : name[i] = Sep

RECURSIVE CamelFrom(_, _)
CamelFrom(name, afterSep) ==
    IF name = <<>> THEN <<>>
    ELSE IF Head(name) = Sep THEN CamelFrom(Tail(name), TRUE)
    ELSE <<IF afterSep THEN Cap(Head(name)) ELSE Head(name)>>
             \o CamelFrom(Tail(name), FALSE)

\* first_name -> firstName: the separators go and the word after each is
\* capitalised.
snake_to_camel(name) == CamelFrom(name, FALSE)

RECURSIVE SnakeFrom(_, _)
SnakeFrom(name, atStart) ==
    IF name = <<>> THEN <<>>
    ELSE (IF IsUpper(Head(name)) /\ ~atStart THEN <<Sep>> ELSE <<>>)
             \o <<Low(Head(name))>> \o SnakeFrom(Tail(name), FALSE)

\* firstName -> first_name: a separator goes before each capitalised word
\* but the first, and every word is lowered.
camel_to_snake(name) == SnakeFrom(name, TRUE)

\* The words the enumerated names are made of.
Words == {"get", "elem"}
Tokens == Words \cup {Cap(w) : w \in Words} \cup {Sep}

\* w, w_w, w_w_w, ...
IsSnakeCase(name) ==
    /\ Len(name) % 2 = 1
    /\ \A i \in 1..Len(name) :
          IF i % 2 = 1 THEN IsLower(name[i]) ELSE name[i] = Sep

\* w, wW, wWW, ...
IsCamelCase(name) ==
    /\ Len(name) >= 1
    /\ IsLower(name[1])
    /\ \A i \in 2..Len(name) : IsUpper(name[i])

\* Every name of at most MaxLen tokens in one of the two conventions.
ConventionNames ==
    { name \in UNION {[1..k -> Tokens] : k \in 1..MaxLen} :
          IsSnakeCase(name) \/ IsCamelCase(name) }

-----------------------------------------------------------------------------
(* Values and results *)

None == <<>>
Some(x) == <<x>>

\* A Python dict: a function on its keys.
EmptyDict == [k \in {} |-> ""]

\* What the caller of an operation gets: a value of some kind, or a raised
\* exception with the place that raised it and what its message carries.
Ret(kind, val) == [kind |-> kind, val |-> val]
Raise(exc, origin, name, tried) ==
    [kind |-> "raise",
     val |-> [exc |-> exc, origin |-> origin, name |-> name, tried |-> tried]]

IsRaise(r, exc) == r.kind = "raise" /\ r.val.exc = exc

-----------------------------------------------------------------------------
(* lxml.objectify elements *)

Elem(tag, ver, kids) == [tag |-> tag, ver |-> ver, kids |-> kids]
Leaf(tag) == Elem(tag, 0, <<>>)

\* The children of e tagged tag, in document order: what iterating over
\* e.tag gives, and what e.tag[i] indexes.
Tagged(e, tag) == SelectSeq(e.kids, LAMBDA k : k.tag = tag)

HasChild(e, tag) == Tagged(e, tag) # <<>>

\* e.tag, getattr(e, tag) and e[tag] for a string tag: the first child so
\* tagged, or AttributeError("no such child: tag").  The Response relies on
\* that exception type at response.py lines 34 and 47.
LxmlChild(e, tag) ==
    IF HasChild(e, tag)
    THEN Ret("child", Head(Tagged(e, tag)))
    ELSE Raise("AttributeError", "lxml", tag, {})

\* bool(e): an element is true when it has children.
Truthy(o) == o # None /\ o[1].kids # <<>>

-----------------------------------------------------------------------------
(* The Model facade (openprovider/models.py) *)

\* Model.__init__ keeping each key as it was given.
ModelInitRawKeys(o, kwargs) == [obj |-> o, attrs |-> kwargs]

\* Model.__init__: the wrapped element and the keyword arguments, each key
\* stored under its camelCase form.
ModelInit(o, kwargs) ==
    [obj |-> o,
     attrs |-> [k \in {snake_to_camel(key) : key \in DOMAIN kwargs} |->
                   kwargs[CHOOSE key \in DOMAIN kwargs : snake_to_camel(key) = k]]]

\* The fields __init__ sets in the instance's __dict__.
InstanceFields == { <<Sep, "obj">>, <<Sep, "attrs">> }

\* The methods of Model that a name of the two conventions can spell.
Methods == { <<"get", Sep, "elem">>, <<"dump">> }

\* The sub-model properties each class declares: key -> class of the child.
Properties(c) ==
    CASE c = "Customer" ->
             (<<"name">> :> "Name") @@ (<<"address">> :> "Address")
                 @@ (<<"phone">> :> "Phone") @@ (<<"fax">> :> "Phone")
      [] c = "Reseller" ->
             (<<"address">> :> "Address") @@ (<<"phone">> :> "Phone")
                 @@ (<<"fax">> :> "Phone")
      [] OTHER -> EmptyDict

\* The names a caller asks for and passes as keywords: the enumerated names
\* of the two conventions and every name a class declares.
Names ==
    ConventionNames \cup Methods
        \cup DOMAIN Properties("Customer") \cup DOMAIN Properties("Reseller")

\* Model.__dir__ as dir() returns it: the instance's fields, the override
\* keys and the wrapped element's children in snake_case, less the names
\* that start with an underscore.
Dir ==
    LET own == InstanceFields \cup {camel_to_snake(k) : k \in DOMAIN attrs}
        kids == IF Truthy(obj)
                THEN {camel_to_snake(obj[1].kids[i].tag) :
                          i \in 1..Len(obj[1].kids)}
                ELSE {}
    IN  {a \in own \cup kids : Head(a) # Sep}

\* Model.__getattr__ asking the wrapped element before the overrides.
GetAttrHookElementFirst(attr) ==
    LET a == IF HasSep(attr) THEN snake_to_camel(attr) ELSE attr
    IN  IF a \in InstanceFields THEN Ret("field", a)
        ELSE IF obj # None /\ HasChild(obj[1], a) THEN LxmlChild(obj[1], a)
        ELSE IF a \in DOMAIN attrs THEN Ret("value", attrs[a])
        ELSE IF obj # None THEN LxmlChild(obj[1], a)
        ELSE Raise("AttributeError", "Model", camel_to_snake(a), Dir)

\* Model.__getattr__: the name in camelCase, then the instance's fields,
\* the overrides and the wrapped element's children.  Only KeyError is
\* caught around the element lookup: lxml's AttributeError for a missing
\* child leaves __getattr__ as it is.
GetAttrHook(attr) ==
    LET a == IF HasSep(attr) THEN snake_to_camel(attr) ELSE attr
    IN  IF a \in InstanceFields THEN Ret("field", a)
        ELSE IF a \in DOMAIN attrs THEN Ret("value", attrs[a])
        ELSE IF obj # None THEN LxmlChild(obj[1], a)
        ELSE Raise("AttributeError", "Model", camel_to_snake(a), Dir)

\* A getter that wraps the child once and keeps the model it made: the
\* child as it was when the element was parsed.
SubmodelGetterMemoized(klass, key) ==
    IF obj = None THEN Raise("AttributeError", "python", key, {})
    ELSE LET c == LxmlChild(obj[1], key)
         IN  IF c.kind = "raise" THEN c
             ELSE Ret("model", [cls |-> klass]
                         @@ ModelInit(Some([c.val EXCEPT !.ver = 0]), EmptyDict))

\* The getter submodel(klass, key) makes: klass(getattr(self._obj, key)).
\* getattr on None raises AttributeError as well.
SubmodelGetter(klass, key) ==
    IF obj = None THEN Raise("AttributeError", "python", key, {})
    ELSE LET c == LxmlChild(obj[1], key)
         IN  IF c.kind = "raise" THEN c
             ELSE Ret("model", [cls |-> klass] @@ ModelInit(Some(c.val), EmptyDict))

\* self.attr as Python resolves it: a property of the class, a field of
\* the instance, a method of the class, and __getattr__ when none of these
\* gives the attribute (a property whose getter raises AttributeError
\* included).
GetAttribute(attr) ==
    IF attr \in DOMAIN Properties(cls)
    THEN LET r == SubmodelGetter(Properties(cls)[attr], attr)
         IN  IF IsRaise(r, "AttributeError") THEN GetAttrHook(attr) ELSE r
    ELSE IF attr \in InstanceFields THEN Ret("field", attr)
    ELSE IF attr \in Methods THEN Ret("method", attr)
    ELSE GetAttrHook(attr)

\* Model.get_elem
GetElemValue == Ret("elem", obj)

\* hasattr(self, attr)
HasAttr(attr) == GetAttribute(attr).kind # "raise"

\* " ".join(parts): the parts with single spaces between them.
RECURSIVE Join(_)
Join(parts) ==
    IF Len(parts) <= 1 THEN parts
    ELSE <<Head(parts), " ">> \o Join(Tail(parts))

\* The first raise among the results, or none.
FirstRaise(rs) ==
    LET bad == SelectSeq(rs, LAMBDA r : r.kind = "raise")
    IN  IF bad = <<>> THEN None ELSE Some(Head(bad))

\* " ".join of attribute values, the attributes read left to right.
JoinAttrs(names) ==
    LET rs == [i \in 1..Len(names) |-> GetAttribute(names[i])]
    IN  IF FirstRaise(rs) # None THEN FirstRaise(rs)[1]
        ELSE Ret("str", Join([i \in 1..Len(rs) |-> rs[i].val]))

first_name == <<"first", Sep, "name">>
last_name == <<"last", Sep, "name">>
firs_name == <<"firs", Sep, "name">>
prefix == <<"prefix">>

\* Name.__str__
NameStr ==
    IF HasAttr(prefix)
    THEN JoinAttrs(<<first_name, prefix, last_name>>)
    ELSE JoinAttrs(<<firs_name, last_name>>)

-----------------------------------------------------------------------------
(* The Response unwrapper (openprovider/response.py) *)

T(word) == <<word>>

\* The class handed to as_model and as_models: one of the repository's
\* Model types, whose constructor returns, or a caller's callable whose
\* constructor raises.
Klasses ==
    {[name |-> n, raises |-> ""] : n \in {"Model", "Domain", "Customer"}}
        \cup {[name |-> "Callable", raises |-> e] :
                 e \in {"AttributeError", "TypeError"}}

\* klass(element)
Construct(klass, e) ==
    IF klass.raises = ""
    THEN Ret("model", [cls |-> klass.name] @@ ModelInit(Some(e), EmptyDict))
    ELSE Raise(klass.raises, "klass", <<>>, {})

\* e.t1.t2...: the chain of child lookups, stopped by the first that raises.
RECURSIVE Path(_, _)
Path(e, tags) ==
    IF tags = <<>> THEN Ret("child", e)
    ELSE LET c == LxmlChild(e, Head(tags))
         IN  IF c.kind = "raise" THEN c ELSE Path(c.val, Tail(tags))

\* Response.__init__ with the lookup of reply.array[0] left unguarded.
ResponseInitUnguarded(t) ==
    LET reply == Path(t, <<T("reply")>>)
        code == Path(t, <<T("reply"), T("code")>>)
        desc == Path(t, <<T("reply"), T("desc")>>)
        data == Path(t, <<T("reply"), T("data")>>)
        array == Path(t, <<T("reply"), T("array")>>)
        rs == <<reply, code, desc, data, array>>
    IN  IF FirstRaise(rs) # None
        THEN [state |-> "raised", val |-> FirstRaise(rs)[1].val]
        ELSE [state |-> "ok",
              val |-> [reply |-> reply.val, code |-> code.val,
                       desc |-> desc.val, data |-> data.val, array |-> array]]

\* Response.__init__: reply, code, desc and data are read as they are; only
\* the lookup of reply.array[0] is guarded, and its AttributeError gives [].
ResponseInit(t) ==
    LET reply == Path(t, <<T("reply")>>)
        code == Path(t, <<T("reply"), T("code")>>)
        desc == Path(t, <<T("reply"), T("desc")>>)
        data == Path(t, <<T("reply"), T("data")>>)
        array == Path(t, <<T("reply"), T("array")>>)
        rs == <<reply, code, desc, data>>
    IN  IF FirstRaise(rs) # None
        THEN [state |-> "raised", val |-> FirstRaise(rs)[1].val]
        ELSE [state |-> "ok",
              val |-> [reply |-> reply.val, code |-> code.val,
                       desc |-> desc.val, data |-> data.val,
                       array |-> IF IsRaise(array, "AttributeError")
                                 THEN Ret("list", <<>>) ELSE array]]

\* Response.as_model
AsModelValue(klass) == Construct(klass, resp.val.data)

\* as_models starting its loop at the second item.
AsModelsSkipFirst(klass) ==
    LET arr == Path(tree[1], <<T("reply"), T("data"), T("results"), T("array")>>)
        first == IF arr.kind = "raise" THEN arr
                 ELSE LxmlChild(arr.val, T("item"))
        items == IF first.kind = "raise" THEN <<>>
                 ELSE Tail(Tagged(arr.val, T("item")))
        made == [i \in 1..Len(items) |-> Construct(klass, items[i])]
        bad == IF first.kind = "raise" THEN Some(first) ELSE FirstRaise(made)
    IN  IF bad = None THEN Ret("list", [i \in 1..Len(made) |-> made[i].val])
        ELSE IF IsRaise(bad[1], "AttributeError") THEN Ret("list", <<>>)
        ELSE bad[1]

\* as_models without its except clause.
AsModelsUnguarded(klass) ==
    LET arr == Path(tree[1], <<T("reply"), T("data"), T("results"), T("array")>>)
        first == IF arr.kind = "raise" THEN arr
                 ELSE LxmlChild(arr.val, T("item"))
        items == IF first.kind = "raise" THEN <<>>
                 ELSE Tagged(arr.val, T("item"))
        made == [i \in 1..Len(items) |-> Construct(klass, items[i])]
        bad == IF first.kind = "raise" THEN Some(first) ELSE FirstRaise(made)
    IN  IF bad = None THEN Ret("list", [i \in 1..Len(made) |-> made[i].val])
        ELSE bad[1]

\* Response.as_models: the items of tree.reply.data.results.array[0], each
\* handed to klass; an AttributeError raised anywhere in the loop, the
\* path's or klass's, gives [].
AsModelsValue(klass) ==
    LET arr == Path(tree[1], <<T("reply"), T("data"), T("results"), T("array")>>)
        first == IF arr.kind = "raise" THEN arr
                 ELSE LxmlChild(arr.val, T("item"))
        items == IF first.kind = "raise" THEN <<>>
                 ELSE Tagged(arr.val, T("item"))
        made == [i \in 1..Len(items) |-> Construct(klass, items[i])]
        bad == IF first.kind = "raise" THEN Some(first) ELSE FirstRaise(made)
    IN  IF bad = None THEN Ret("list", [i \in 1..Len(made) |-> made[i].val])
        ELSE IF IsRaise(bad[1], "AttributeError") THEN Ret("list", <<>>)
        ELSE bad[1]

-----------------------------------------------------------------------------
(* Inputs *)

\* The value a keyword argument carries, and the parts of a person's name.
Values == {"v1"}
NameValues == {"Jan", "van", "Dam"}

\* The elements of seq at the positions in S, in order.
SubSeqAt(seq, S) ==
    LET F[i \in 0..Len(seq)] ==
            IF i = 0 THEN <<>>
            ELSE IF i \in S THEN Append(F[i - 1], seq[i]) ELSE F[i - 1]
    IN  F[Len(seq)]

\* The elements with children tagged by some of tags, in that order.
ElementsOver(tags) ==
    { Elem(T("item"), 0, SubSeqAt([i \in 1..Len(tags) |-> Leaf(tags[i])], S)) :
          S \in SUBSET (1..Len(tags)) }

\* The children an API element carries here, tagged in camelCase.
ApiTags == << <<"name">>, <<"get", "Elem">>, <<"elem", "Get">> >>

\* The children the sub-model properties read.
SubTags == << <<"name">>, <<"address">>, <<"phone">>, <<"fax">> >>

\* Keyword arguments: none, or one key of the enumerated names.
Kwargs ==
    {EmptyDict} \cup {key :> v : key \in Names, v \in Values}

\* The keyword arguments a Name is made with: any of its three parts.
NameKwargs ==
    UNION {[K -> NameValues] : K \in SUBSET {first_name, prefix, last_name}}

Opt(b, e) == IF b THEN <<e>> ELSE <<>>

ItemSeqs == UNION {[1..k -> {"item", "other"}] : k \in 0..MaxItems}

\* The parsed reply: each part of the envelope there or not, the results
\* array holding the children s, each with its position as its version.
Envelope(f, s) ==
    LET items == [i \in 1..Len(s) |-> Elem(T(s[i]), i, <<>>)]
        results == Elem(T("results"), 0, Opt(f.rarray, Elem(T("array"), 0, items)))
        data == Elem(T("data"), 0, Opt(f.results, results))
        reply == Elem(T("reply"), 0,
                      Opt(f.code, Leaf(T("code"))) \o Opt(f.desc, Leaf(T("desc")))
                          \o Opt(f.data, data) \o Opt(f.array, Leaf(T("array"))))
    IN  Elem(T("openXML"), 0, Opt(f.reply, reply))

Envelopes ==
    { Envelope(f, s) :
          f \in [{"reply", "code", "desc", "data", "array", "results", "rarray"}
                    -> BOOLEAN],
          s \in ItemSeqs }

NoResponse == [state |-> "none", val |-> <<>>]
NewResponse == [state |-> "new", val |-> <<>>]
Start == [op |-> "init", arg |-> <<>>, kind |-> "none", val |-> <<>>]
Done(op, arg, r) == [op |-> op, arg |-> arg, kind |-> r.kind, val |-> r.val]

-----------------------------------------------------------------------------
(* The state machine *)

\* A Model of class c made by c(o, **kwargs).
InitModelWith(c, o, kwargs) ==
    /\ cls = c
    /\ kw = kwargs
    /\ attrs = ModelInit(o, kwargs).attrs
    /\ obj = ModelInit(o, kwargs).obj
    /\ tree = None
    /\ resp = NoResponse
    /\ last = Start

InitModel ==
    \E c \in {"Model", "Customer"}, kwargs \in Kwargs,
       o \in {None} \cup {Some(e) : e \in ElementsOver(ApiTags)} :
        InitModelWith(c, o, kwargs)

InitName ==
    \E kwargs \in NameKwargs : InitModelWith("Name", None, kwargs)

InitSubmodels ==
    \E c \in {"Customer", "Reseller"}, e \in ElementsOver(SubTags) :
        InitModelWith(c, Some(e), EmptyDict)

\* A parsed tree, the Response not made yet.
InitResponse ==
    /\ cls = ""
    /\ kw = EmptyDict
    /\ attrs = EmptyDict
    /\ obj = None
    /\ tree \in {Some(e) : e \in Envelopes}
    /\ resp = NewResponse
    /\ last = Start

Init == InitModel \/ InitName \/ InitResponse

\* model.attr
Lookup ==
    /\ cls # ""
    /\ \E attr \in Names \cup InstanceFields :
          last' = Done("getattr", attr, GetAttribute(attr))
    /\ UNCHANGED <<cls, kw, attrs, obj, tree, resp>>

\* dir(model)
DirOp ==
    /\ cls # ""
    /\ last' = Done("dir", <<>>, Ret("names", Dir))
    /\ UNCHANGED <<cls, kw, attrs, obj, tree, resp>>

\* model.get_elem()
GetElem ==
    /\ cls # ""
    /\ last' = Done("get_elem", <<>>, GetElemValue)
    /\ UNCHANGED <<cls, kw, attrs, obj, tree, resp>>

\* model.key for a declared sub-model property
SubmodelAccess ==
    /\ \E key \in DOMAIN Properties(cls) :
          last' = Done("submodel", key, GetAttribute(key))
    /\ UNCHANGED <<cls, kw, attrs, obj, tree, resp>>

\* str(name)
Str ==
    /\ cls = "Name"
    /\ last' = Done("str", <<>>, NameStr)
    /\ UNCHANGED <<cls, kw, attrs, obj, tree, resp>>

\* Response(tree)
NewResp ==
    /\ resp.state = "new"
    /\ resp' = ResponseInit(tree[1])
    /\ last' = Done("Response", <<>>, Ret(resp'.state, <<>>))
    /\ UNCHANGED <<cls, kw, attrs, obj, tree>>

\* response.as_model(klass)
AsModel ==
    /\ resp.state = "ok"
    /\ \E klass \in Klasses : last' = Done("as_model", klass, AsModelValue(klass))
    /\ UNCHANGED <<cls, kw, attrs, obj, tree, resp>>

\* as_models taking each item out of the tree as it wraps it.
AsModelsConsuming ==
    /\ resp.state = "ok"
    /\ \E klass \in Klasses : last' = Done("as_models", klass, AsModelsValue(klass))
    /\ tree' = Some([tree[1] EXCEPT !.kids = <<>>])
    /\ UNCHANGED <<cls, kw, attrs, obj, resp>>

\* response.as_models(klass)
AsModels ==
    /\ resp.state = "ok"
    /\ \E klass \in Klasses : last' = Done("as_models", klass, AsModelsValue(klass))
    /\ UNCHANGED <<cls, kw, attrs, obj, tree, resp>>

\* The transport layer replaces a child of the wrapped element by a newly
\* parsed one.
ReplaceChild ==
    /\ obj # None
    /\ \E i \in 1..Len(obj[1].kids) :
          /\ obj[1].kids[i].ver < MaxReplace
          /\ obj' = Some([obj[1] EXCEPT !.kids[i].ver = @ + 1])
          /\ last' = Done("replace", obj[1].kids[i].tag, Ret("none", <<>>))
    /\ UNCHANGED <<cls, kw, attrs, tree, resp>>

Next ==
    \/ Lookup
    \/ DirOp
    \/ GetElem
    \/ SubmodelAccess
    \/ Str
    \/ NewResp
    \/ AsModel
    \/ AsModels

Spec == Init /\ [][Next]_vars

\* Sub-model properties read while the transport layer replaces children.
SubNext == SubmodelAccess \/ ReplaceChild

SubSpec == InitSubmodels /\ [][SubNext]_vars

-----------------------------------------------------------------------------
(* The claims *)

\* The name __getattr__ resolves for a requested name.
Norm(attr) == IF HasSep(attr) THEN snake_to_camel(attr) ELSE attr

\* The names the class or the instance defines itself.
OwnNames(c) == DOMAIN Properties(c) \cup Methods \cup InstanceFields

WrapsChild(tag) == obj # None /\ HasChild(obj[1], tag)
CurrentChild(tag) == Head(Tagged(obj[1], tag))

IsLookup == last.op \in {"getattr", "submodel"}

\* Both spellings of a snake_case keyword give its value, and both
\* spellings of a child that no override hides give the child.
BothSpellingsResolve(restricted) ==
    IsLookup /\ (restricted => last.arg \notin OwnNames(cls)) =>
        /\ \A key \in DOMAIN kw :
              IsSnakeCase(key) /\ last.arg \in {key, snake_to_camel(key)} =>
                  last.kind = "value" /\ last.val = kw[key]
        /\ \A s \in Names :
              /\ IsSnakeCase(s)
              /\ last.arg \in {s, snake_to_camel(s)}
              /\ WrapsChild(snake_to_camel(s))
              /\ snake_to_camel(s) \notin DOMAIN attrs
              => last.kind = "child" /\ last.val = CurrentChild(snake_to_camel(s))

\* C1 as stated: for every Model and every override given in snake_case,
\* lookup by the snake_case and by the camelCase spelling both return the
\* override value; likewise for a child of the wrapped element.
C1_AnyKeyBothSpellings == BothSpellingsResolve(FALSE)

\* C1 as amended: the same for every spelling that is not a name the class
\* or the instance defines itself (a method such as get_elem, a declared
\* sub-model property, _obj, _attrs).
C1_BothSpellings == BothSpellingsResolve(TRUE)

\* C1: a lookup by the camelCase spelling of a key given with a separator
\* has returned the override.
C1_Witness ==
    /\ last.op = "getattr"
    /\ \E key \in DOMAIN kw :
          /\ HasSep(key)
          /\ last.arg = snake_to_camel(key)
          /\ last.kind = "value"
          /\ last.val = kw[key]

\* A lookup of a name with both an override and a same-named child gives
\* the override.
OverrideWins(restricted) ==
    /\ IsLookup
    /\ restricted => last.arg \notin OwnNames(cls)
    /\ Norm(last.arg) \in DOMAIN attrs
    /\ WrapsChild(Norm(last.arg))
    => last.kind = "value" /\ last.val = attrs[Norm(last.arg)]

\* C2 as stated: for every Model, Customer and Reseller included, and every
\* name with both an override and a same-named child, lookup returns the
\* override and never the child or a model built from it.
C2_OverrideAlwaysWins == OverrideWins(FALSE)

\* C2 as amended: the same for every name that is not one the class or the
\* instance defines itself.
C2_OverridePrecedence == OverrideWins(TRUE)

\* C2: a lookup of a name with an override and a same-named child has
\* returned the override.
C2_Witness ==
    /\ last.op = "getattr"
    /\ WrapsChild(Norm(last.arg))
    /\ last.kind = "value"

\* C3: a lookup of a name with neither an override nor a matching child
\* (and that the class does not define itself) raises the facade's own
\* AttributeError, naming the attribute in snake_case and carrying dir(),
\* which is not empty when the Model has overrides or wrapped children.
C3_FacadeNotFound ==
    /\ last.op = "getattr"
    /\ last.arg \notin OwnNames(cls)
    /\ Norm(last.arg) \notin DOMAIN attrs
    /\ ~WrapsChild(Norm(last.arg))
    => /\ IsRaise(last, "AttributeError")
       /\ last.val.origin = "Model"
       /\ last.val.name = camel_to_snake(Norm(last.arg))
       /\ last.val.tried = Dir
       /\ (DOMAIN attrs # {} \/ Truthy(obj)) => last.val.tried # {}

\* The array of results of the tree, when the whole path to it is there.
ResultsArray ==
    Path(tree[1], <<T("reply"), T("data"), T("results"), T("array")>>)

\* The positions of the item elements among the array's children.
ItemPositions ==
    IF ResultsArray.kind = "raise" THEN {}
    ELSE {i \in 1..Len(ResultsArray.val.kids) :
              ResultsArray.val.kids[i].tag = T("item")}

\* C4: with n >= 1 item elements, as_models(K) for a Model type K returns
\* exactly n instances of K, the i-th wrapping the i-th item in document
\* order.
C4_AsModelsInOrder ==
    /\ last.op = "as_models"
    /\ last.arg.raises = ""
    /\ ItemPositions # {}
    => /\ last.kind = "list"
       /\ Len(last.val) = Cardinality(ItemPositions)
       /\ \A i \in 1..Len(last.val) :
             /\ last.val[i].cls = last.arg.name
             /\ last.val[i].obj # None
             /\ last.val[i].obj[1].tag = T("item")
             /\ last.val[i].obj[1].ver \in ItemPositions
             /\ Cardinality({p \in ItemPositions : p <= last.val[i].obj[1].ver}) = i

\* C4: as_models has returned two or more models from an array that also
\* holds a child that is no item.
C4_Witness ==
    /\ last.op = "as_models"
    /\ last.kind = "list"
    /\ Len(last.val) >= 2
    /\ Cardinality(ItemPositions) < Len(ResultsArray.val.kids)

Present(tags) == Path(tree[1], tags).kind = "child"

EnvelopeComplete ==
    /\ Present(<<T("reply"), T("code")>>)
    /\ Present(<<T("reply"), T("desc")>>)
    /\ Present(<<T("reply"), T("data")>>)

\* C5: on a tree with reply.code, reply.desc and reply.data and no
\* reply.array, construction succeeds and the array is the empty sequence.
C5_NoArrayGivesEmpty ==
    /\ resp.state \in {"ok", "raised"}
    /\ EnvelopeComplete
    /\ ~Present(<<T("reply"), T("array")>>)
    => resp.state = "ok" /\ resp.val.array = Ret("list", <<>>)

\* C5: a Response has been made from a tree without reply.array.
C5_Witness ==
    /\ resp.state = "ok"
    /\ ~Present(<<T("reply"), T("array")>>)
    /\ resp.val.array.kind = "list"

\* C6: when any part of data.results.array[0].item is missing, as_models
\* returns the empty sequence and raises nothing.
C6_MissingPathGivesEmpty ==
    /\ last.op = "as_models"
    /\ ItemPositions = {}
    => last.kind = "list" /\ last.val = <<>>

\* C6: as_models has returned the empty sequence for a tree with results
\* but no array under it.
C6_Witness ==
    /\ last.op = "as_models"
    /\ Present(<<T("reply"), T("data"), T("results")>>)
    /\ ResultsArray.kind = "raise"
    /\ last.kind = "list"

\* C7: construction fails exactly when reply, code, desc or data is
\* missing, and an error raised while as_models constructs the model of an
\* item reaches the caller and is not turned into an empty sequence.
C7_OnlyTwoAbsencesSwallowed ==
    /\ resp.state \in {"ok", "raised"} => (resp.state = "raised" <=> ~EnvelopeComplete)
    /\ /\ last.op = "as_models"
       /\ ItemPositions # {}
       /\ last.arg.raises # ""
       => IsRaise(last, last.arg.raises)

\* C8: an access of a sub-model property gives a model of the declared
\* class wrapping the child that is current at that access.
C8_SubmodelReadsCurrentChild ==
    last.op = "submodel" =>
        IF WrapsChild(last.arg)
        THEN /\ last.kind = "model"
             /\ last.val.cls = Properties(cls)[last.arg]
             /\ last.val.obj = Some(CurrentChild(last.arg))
             /\ last.val.attrs = EmptyDict
        ELSE IsRaise(last, "AttributeError")

\* C8: a sub-model property has been read after its child was replaced
\* twice.
C8_Witness ==
    /\ last.op = "submodel"
    /\ last.kind = "model"
    /\ last.val.obj[1].ver >= 2

\* C9: for a Name whose first and last name resolve, str() gives the first
\* name, the prefix when there is one, and the last name, joined by single
\* spaces.
C9_NameRenders ==
    /\ last.op = "str"
    /\ snake_to_camel(first_name) \in DOMAIN attrs
    /\ snake_to_camel(last_name) \in DOMAIN attrs
    => /\ last.kind = "str"
       /\ last.val =
             IF prefix \in DOMAIN attrs
             THEN <<attrs[snake_to_camel(first_name)], " ", attrs[prefix], " ",
                    attrs[snake_to_camel(last_name)]>>
             ELSE <<attrs[snake_to_camel(first_name)], " ",
                    attrs[snake_to_camel(last_name)]>>

\* C10: no operation of a Model or of a constructed Response changes the
\* wrapped element, the overrides, the Response's tree or its fields.
C10_OperationsChangeNothing ==
    [][/\ obj' = obj
       /\ attrs' = attrs
       /\ tree' = tree
       /\ resp.state # "new" => resp' = resp]_vars

\* C10: as_models has returned models of the items of a constructed
\* Response.
C10_Witness ==
    /\ resp.state = "ok"
    /\ last.op = "as_models"
    /\ last.kind = "list"
    /\ last.val # <<>>

=============================================================================
